---- MODULE Spec2Model ----
(***************************************************************************)
(* Model of cmd/buildctl/build.go: the build command's option parsers, the *)
(* output resolver, and the errgroup of three goroutines (engine call,     *)
(* trace forwarder, progress display) that build() starts and waits for.   *)
(*                                                                         *)
(* Strings are sequences of chunks.  A chunk stands for the run of         *)
(* characters spelled by its name ("type" is the four letters t,y,p,e;     *)
(* "=" and "," are the single characters), so concatenation, substring     *)
(* search, splitting and case folding are computed as the Go code does.    *)
(* The chunk sets hold no quote and no newline, the two characters the     *)
(* encoding/csv reader treats specially besides the comma.                 *)
(***************************************************************************)
EXTENDS Integers, Sequences, FiniteSets, TLC

VARIABLES
    pc,             \* position of build() itself
    result,         \* what build() returned ("none" while it runs)
    traceEnc,       \* traceEnc != nil
    traceFileOpen,  \* the trace file is open (closed by the deferred Close)
    outputHandle,   \* solveOpt.ExporterOutput: "none", "file" or "stdout"
    outputReleases, \* how many times build() closed solveOpt.ExporterOutput
    engPc,          \* goroutine 1, c.Solve
    engEv,          \* the event c.Solve is sending on ch
    chClosed,       \* ch was closed
    emitted,        \* events received from ch, in order
    fwdPc,          \* goroutine 2, the trace forwarder
    fwdEv,          \* the forwarder's loop variable s
    traceSeen,      \* events handed to traceEnc.Encode
    traceLog,       \* events Encode wrote to the trace file
    traceErrs,      \* Encode errors handed to logrus.Error
    dispPc,         \* goroutine 3, the display
    displayClosed,  \* the forwarder's displayCh was closed
    rendered,       \* events DisplaySolveStatus received
    egErr,          \* errgroup: the first non-nil error
    ctxCancelled,   \* errgroup: ctx was cancelled
    cancelledBy,    \* the task whose error cancelled ctx
    renderedAtCancel, \* history: Len(rendered) when ctx was cancelled, -1 before
    engErr,         \* what goroutine 1 returned ("none" while it runs)
    fwdErr,         \* what goroutine 2 returned
    dispErr,        \* what goroutine 3 returned
    pOp,            \* the parser that is applied
    pIn,            \* its arguments
    pOut            \* its outcome

buildVars == <<pc, result, traceEnc, traceFileOpen, outputHandle, outputReleases>>
engVars   == <<engPc, engEv, chClosed, emitted>>
fwdVars   == <<fwdPc, fwdEv, traceSeen, traceLog, traceErrs>>
dispVars  == <<dispPc, displayClosed, rendered>>
egVars    == <<egErr, ctxCancelled, cancelledBy, renderedAtCancel,
               engErr, fwdErr, dispErr>>
parseVars == <<pOp, pIn, pOut>>
vars      == <<buildVars, engVars, fwdVars, dispVars, egVars, parseVars>>

(***************************************************************************)
(* Bounds                                                                  *)
(***************************************************************************)
MaxEvents == 2      \* status events one engine call emits
MaxLen    == 5      \* chunks in one option string
MaxList   == 2      \* option strings in one repeated flag

CacheChunks  == {"type", "TYPE", "a", "=", ","}
SecretChunks == {"type", "id", "src", "file", "=", ","}
EventKinds   == {"vertex", "log"}

RECURSIVE StringsUpTo(_, _)
StringsUpTo(chunks, n) ==
    IF n = 0 THEN {<<>>}
    ELSE LET shorter == StringsUpTo(chunks, n - 1)
         IN  shorter \cup {Append(s, c) : s \in shorter, c \in chunks}

RECURSIVE ListsUpTo(_, _)
ListsUpTo(strs, n) ==
    IF n = 0 THEN {<<>>}
    ELSE LET shorter == ListsUpTo(strs, n - 1)
         IN  shorter \cup {Append(l, s) : l \in shorter, s \in strs}

(***************************************************************************)
(* Go library functions the parsers call                                   *)
(***************************************************************************)
\* strings.Index for a one-character separator; 0 when absent
RECURSIVE IndexFrom(_, _, _)
IndexFrom(s, c, i) ==
    IF i > Len(s) THEN 0
    ELSE IF s[i] = c THEN i
    ELSE IndexFrom(s, c, i + 1)

\* strings.SplitN(field, "=", 2)
SplitN2(field) ==
    LET i == IndexFrom(field, "=", 1)
    IN  IF i = 0 THEN <<field>>
        ELSE <<SubSeq(field, 1, i - 1), SubSeq(field, i + 1, Len(field))>>

ToLowerChunk(c) == IF c = "TYPE" THEN "type" ELSE c

\* strings.ToLower
ToLower(s) == [i \in DOMAIN s |-> ToLowerChunk(s[i])]

\* strings.Contains
Contains(s, sub) ==
    \E i \in 1..(Len(s) - Len(sub) + 1) : SubSeq(s, i, i + Len(sub) - 1) = sub

\* the fields of the first record of csv.NewReader(strings.NewReader(s))
RECURSIVE SplitComma(_)
SplitComma(s) ==
    LET i == IndexFrom(s, ",", 1)
    IN  IF i = 0 THEN <<s>>
        ELSE <<SubSeq(s, 1, i - 1)>> \o SplitComma(SubSeq(s, i + 1, Len(s)))

\* csvReader.Read(): io.EOF on empty input
csvRead(s) ==
    IF s = <<>> THEN [status |-> "err", err |-> "EOF", val |-> <<>>]
    ELSE [status |-> "ok", err |-> "nil", val |-> SplitComma(s)]

NoAttrs == [k \in {} |-> <<>>]

\* m[k] = v on a Go map
MapPut(m, k, v) == [x \in (DOMAIN m) \cup {k} |-> IF x = k THEN v ELSE m[x]]

Ok(v)      == [status |-> "ok", err |-> "nil", val |-> v]
Err(e, v)  == [status |-> "err", err |-> e, val |-> v]
Panic(v)   == [status |-> "panic", err |-> "index out of range", val |-> v]

(***************************************************************************)
(* Option parsers                                                          *)
(***************************************************************************)
TypeKey  == <<"type">>
TypeEq   == <<"type", "=">>
ModeKey  == <<"mode">>
RefKey   == <<"ref">>
Registry == <<"registry">>
MinMode  == <<"min">>

\* attrMap: one iteration of the loop
attrMapStep(m, v) ==
    LET parts == SplitN2(v)
    IN  IF Len(parts) # 2 THEN Err("invalid value", NoAttrs)
        ELSE Ok(MapPut(m, parts[1], parts[2]))

RECURSIVE attrMapLoop(_, _, _)
attrMapLoop(sl, i, m) ==
    IF i > Len(sl) THEN Ok(m)
    ELSE LET r == attrMapStep(m, sl[i])
         IN  IF r.status # "ok" THEN r ELSE attrMapLoop(sl, i + 1, r.val)

attrMap(sl) == attrMapLoop(sl, 1, NoAttrs)

\* parseExportCacheCSV / parseImportCacheCSV: one iteration of the field loop.
\* parts[1] of the Go code (the second element) is read without a length check.
cacheFieldStep(ex, field) ==
    LET parts == SplitN2(field)
    IN  IF Len(parts) < 2 THEN Panic(ex)
        ELSE LET key   == ToLower(parts[1])
                 value == parts[2]
             IN  IF key = TypeKey
                 THEN Ok([ex EXCEPT !.Type = value])
                 ELSE Ok([ex EXCEPT !.Attrs = MapPut(@, key, value)])

RECURSIVE cacheFieldLoop(_, _, _)
cacheFieldLoop(fields, i, ex) ==
    IF i > Len(fields) THEN Ok(ex)
    ELSE LET r == cacheFieldStep(ex, fields[i])
         IN  IF r.status # "ok" THEN r ELSE cacheFieldLoop(fields, i + 1, r.val)

EmptyEntry == [Type |-> <<>>, Attrs |-> NoAttrs]

exportDefaultMode(ex) ==
    IF ModeKey \in DOMAIN ex.Attrs THEN ex
    ELSE [ex EXCEPT !.Attrs = MapPut(@, ModeKey, MinMode)]

parseExportCacheCSV(s) ==
    LET rd == csvRead(s)
    IN  IF rd.status # "ok" THEN Err(rd.err, EmptyEntry)
        ELSE LET r == cacheFieldLoop(rd.val, 1, EmptyEntry)
             IN  IF r.status # "ok" THEN r
                 ELSE IF r.val.Type = <<>>
                 THEN Err("--export-cache requires type=<type>", r.val)
                 ELSE Ok(exportDefaultMode(r.val))

parseImportCacheCSV(s) ==
    LET rd == csvRead(s)
    IN  IF rd.status # "ok" THEN Err(rd.err, EmptyEntry)
        ELSE LET r == cacheFieldLoop(rd.val, 1, EmptyEntry)
             IN  IF r.status # "ok" THEN r
                 ELSE IF r.val.Type = <<>>
                 THEN Err("--import-cache requires type=<type>", r.val)
                 ELSE Ok(r.val)

\* legacy := !strings.Contains(exportCache, "type=")
IsLegacy(spec) == ~Contains(spec, TypeEq)

\* parseExportCache: the check made before the loop
legacyOptsCountOk_unchecked(exportCaches, legacyExportCacheOpts) == TRUE

legacyOptsCountOk(exportCaches, legacyExportCacheOpts) ==
    ~(Len(legacyExportCacheOpts) > 0 /\ Len(exportCaches) # 1)

\* parseExportCache: the attributes of a legacy entry
legacyAttrs(attrs, exportCache) ==
    LET withMode == IF ModeKey \in DOMAIN attrs THEN attrs
                    ELSE MapPut(attrs, ModeKey, MinMode)
    IN  MapPut(withMode, RefKey, exportCache)

RECURSIVE exportCacheLoop(_, _, _, _)
exportCacheLoop(exportCaches, legacyExportCacheOpts, i, exports) ==
    IF i > Len(exportCaches) THEN Ok(exports)
    ELSE LET exportCache == exportCaches[i]
         IN  IF IsLegacy(exportCache)
             THEN LET am == attrMap(legacyExportCacheOpts)
                  IN  IF am.status # "ok" THEN Err(am.err, <<>>)
                      ELSE exportCacheLoop(exportCaches, legacyExportCacheOpts, i + 1,
                               Append(exports,
                                      [Type  |-> Registry,
                                       Attrs |-> legacyAttrs(am.val, exportCache)]))
             ELSE IF Len(legacyExportCacheOpts) > 0
             THEN Err("--export-cache-opt is not supported for the specified --export-cache", <<>>)
             ELSE LET r == parseExportCacheCSV(exportCache)
                  IN  IF r.status # "ok" THEN [r EXCEPT !.val = <<>>]
                      ELSE exportCacheLoop(exportCaches, legacyExportCacheOpts, i + 1,
                                           Append(exports, r.val))

parseExportCache(exportCaches, legacyExportCacheOpts) ==
    IF ~legacyOptsCountOk(exportCaches, legacyExportCacheOpts)
    THEN Err("--export-cache-opt requires exactly single --export-cache", <<>>)
    ELSE exportCacheLoop(exportCaches, legacyExportCacheOpts, 1, <<>>)

RECURSIVE importCacheLoop(_, _, _)
importCacheLoop(importCaches, i, imports) ==
    IF i > Len(importCaches) THEN Ok(imports)
    ELSE LET importCache == importCaches[i]
         IN  IF IsLegacy(importCache)
             THEN importCacheLoop(importCaches, i + 1,
                      Append(imports,
                             [Type  |-> Registry,
                              Attrs |-> MapPut(NoAttrs, RefKey, importCache)]))
             ELSE LET r == parseImportCacheCSV(importCache)
                  IN  IF r.status # "ok" THEN [r EXCEPT !.val = <<>>]
                      ELSE importCacheLoop(importCaches, i + 1, Append(imports, r.val))

parseImportCache(importCaches) == importCacheLoop(importCaches, 1, <<>>)

EmptySource == [ID |-> <<>>, FilePath |-> <<>>]

\* parseSecret: one iteration of the field loop
secretFieldStep(fs, field) ==
    LET parts == SplitN2(field)
        key   == ToLower(parts[1])
    IN  IF Len(parts) # 2 THEN Err("invalid field must be a key=value pair", EmptySource)
        ELSE LET value == parts[2]
             IN  CASE key = TypeKey ->
                        IF value # <<"file">>
                        THEN Err("unsupported secret type", EmptySource)
                        ELSE Ok(fs)
                   [] key = <<"id">> -> Ok([fs EXCEPT !.ID = value])
                   [] key \in {<<"source">>, <<"src">>} -> Ok([fs EXCEPT !.FilePath = value])
                   [] OTHER -> Err("unexpected key", EmptySource)

RECURSIVE secretFieldLoop(_, _, _)
secretFieldLoop(fields, i, fs) ==
    IF i > Len(fields) THEN Ok(fs)
    ELSE LET r == secretFieldStep(fs, fields[i])
         IN  IF r.status # "ok" THEN r ELSE secretFieldLoop(fields, i + 1, r.val)

parseSecret(value) ==
    LET rd == csvRead(value)
    IN  IF rd.status # "ok" THEN Err("failed to parse csv secret", EmptySource)
        ELSE secretFieldLoop(rd.val, 1, EmptySource)

(***************************************************************************)
(* The parsers on bounded inputs                                           *)
(***************************************************************************)
CacheStrings  == StringsUpTo(CacheChunks, MaxLen)
SecretStrings == StringsUpTo(SecretChunks, MaxLen)

\* --export-cache / --import-cache values given together in one invocation
SpecStrings == {<<"a">>, <<"a", "=", "a">>, <<"type", "=", "a">>,
                <<"type", "=", "a", ",", "mode", "=", "max">>}

\* --export-cache-opt values
OptStrings == {<<"a", "=", "a">>, <<"mode", "=", "max">>, <<"ref", "=", "a">>, <<"a">>}

\* --exporter-opt / --frontend-opt / --local values
FlatStrings == {<<"a", "=", "1">>, <<"a", "=", "2">>, <<"b", "=", "2", "=", "3">>,
                <<"noequals">>, <<>>}

ExportInputs ==
    {<<<<s>>, <<>>>> : s \in CacheStrings}
        \cup (ListsUpTo(SpecStrings, MaxList) \X ListsUpTo(OptStrings, MaxList))

ImportInputs ==
    {<<s>> : s \in CacheStrings} \cup ListsUpTo(SpecStrings, MaxList)

ParseInputs ==
    ({"parseExportCache"} \X ExportInputs)
        \cup ({"parseImportCache"} \X ImportInputs)
        \cup ({"parseSecret"} \X SecretStrings)
        \cup ({"attrMap"} \X ListsUpTo(FlatStrings, MaxList))

Pending == [status |-> "pending", err |-> "nil", val |-> <<>>]

ParseIdle == pOp = "none" /\ pIn = <<>> /\ pOut = Pending

ApplyExportCache ==
    /\ pOp = "parseExportCache" /\ pOut.status = "pending"
    /\ pOut' = parseExportCache(pIn[1], pIn[2])
    /\ UNCHANGED <<pOp, pIn, buildVars, engVars, fwdVars, dispVars, egVars>>

ApplyImportCache ==
    /\ pOp = "parseImportCache" /\ pOut.status = "pending"
    /\ pOut' = parseImportCache(pIn)
    /\ UNCHANGED <<pOp, pIn, buildVars, engVars, fwdVars, dispVars, egVars>>

ApplySecret ==
    /\ pOp = "parseSecret" /\ pOut.status = "pending"
    /\ pOut' = parseSecret(pIn)
    /\ UNCHANGED <<pOp, pIn, buildVars, engVars, fwdVars, dispVars, egVars>>

ApplyAttrMap ==
    /\ pOp = "attrMap" /\ pOut.status = "pending"
    /\ pOut' = attrMap(pIn)
    /\ UNCHANGED <<pOp, pIn, buildVars, engVars, fwdVars, dispVars, egVars>>

(***************************************************************************)
(* build(): the sequential part                                            *)
(***************************************************************************)
BuildInit ==
    /\ pc = "resolveClient" /\ result = "none"
    /\ traceEnc = FALSE /\ traceFileOpen = FALSE
    /\ outputHandle = "none" /\ outputReleases = 0
    /\ engPc = "none" /\ engEv = "none" /\ chClosed = FALSE /\ emitted = <<>>
    /\ fwdPc = "none" /\ fwdEv = "none"
    /\ traceSeen = <<>> /\ traceLog = <<>> /\ traceErrs = 0
    /\ dispPc = "none" /\ displayClosed = FALSE /\ rendered = <<>>
    /\ egErr = "nil" /\ ctxCancelled = FALSE /\ cancelledBy = "none"
    /\ renderedAtCancel = -1
    /\ engErr = "none" /\ fwdErr = "none" /\ dispErr = "none"

\* a return statement of build(): the deferred traceFile.Close() runs, and nothing
\* else does: no statement of build() closes solveOpt.ExporterOutput
ReturnFromBuild(err) ==
    /\ pc' = "returned"
    /\ result' = err
    /\ traceFileOpen' = FALSE
    /\ UNCHANGED <<traceEnc, outputHandle, outputReleases>>

\* a run-time panic unwinds build(): deferred calls run, the process dies
PanicInBuild ==
    /\ pc' = "panicked"
    /\ result' = "panic"
    /\ traceFileOpen' = FALSE
    /\ UNCHANGED <<traceEnc, outputHandle, outputReleases>>

Proceed(next) ==
    /\ pc' = next
    /\ UNCHANGED <<result, traceEnc, traceFileOpen, outputHandle, outputReleases>>

\* a step that calls a parser and returns its error
AfterParse(r, next) ==
    CASE r.status = "ok"    -> Proceed(next)
      [] r.status = "panic" -> PanicInBuild
      [] OTHER              -> ReturnFromBuild(r.err)

Idle == UNCHANGED <<engVars, fwdVars, dispVars, egVars, parseVars>>

ResolveClient ==
    /\ pc = "resolveClient"
    /\ \E ok \in BOOLEAN :
          IF ok THEN Proceed("openTraceFile")
          ELSE ReturnFromBuild("failed to resolve client")
    /\ Idle

OpenTraceFile ==
    /\ pc = "openTraceFile"
    /\ \E traceFileName \in {"", "trace.json"}, openOk \in BOOLEAN :
          IF traceFileName = ""
          THEN Proceed("ssh")
          ELSE IF ~openOk
          THEN ReturnFromBuild("cannot open trace file")
          ELSE /\ pc' = "ssh"
               /\ traceEnc' = TRUE
               /\ traceFileOpen' = TRUE
               /\ UNCHANGED <<result, outputHandle, outputReleases>>
    /\ Idle

\* parseSSHSpecs never fails; sshprovider.NewSSHAgentProvider may
ParseSSH ==
    /\ pc = "ssh"
    /\ \E providerOk \in BOOLEAN :
          IF providerOk THEN Proceed("secret")
          ELSE ReturnFromBuild("ssh agent provider")
    /\ Idle

SecretFlagValues == {<<"id", "=", "a">>, <<"type", "=", "file", ",", "id", "=", "a">>,
                     <<"type", "=", "env">>, <<"id">>}

RECURSIVE parseSecretSpecsLoop(_, _)
parseSecretSpecsLoop(sl, i) ==
    IF i > Len(sl) THEN Ok(<<>>)
    ELSE LET s == parseSecret(sl[i])
         IN  IF s.status # "ok" THEN s ELSE parseSecretSpecsLoop(sl, i + 1)

ParseSecrets ==
    /\ pc = "secret"
    /\ \E secrets \in ListsUpTo(SecretFlagValues, MaxList) :
          IF Len(secrets) > 0
          THEN AfterParse(parseSecretSpecsLoop(secrets, 1), "allow")
          ELSE Proceed("allow")
    /\ Idle

ParseEntitlements ==
    /\ pc = "allow"
    /\ \E ok \in BOOLEAN :
          IF ok THEN Proceed("exportCache")
          ELSE ReturnFromBuild("unknown entitlement")
    /\ Idle

ParseExportCacheFlag ==
    /\ pc = "exportCache"
    /\ \E exportCaches \in ListsUpTo(SpecStrings \cup {<<"type", "=", "a", ",", "a">>}, MaxList),
          opts \in ListsUpTo(OptStrings, MaxList) :
          AfterParse(parseExportCache(exportCaches, opts), "importCache")
    /\ Idle

ParseImportCacheFlag ==
    /\ pc = "importCache"
    /\ \E importCaches \in ListsUpTo(SpecStrings \cup {<<"type", "=", "a", ",", "a">>}, MaxList) :
          AfterParse(parseImportCache(importCaches), "exporter")
    /\ Idle

(***************************************************************************)
(* Output resolver                                                         *)
(***************************************************************************)
Exporters   == {"local", "oci", "docker", "image"}
StatResults == {"notexist", "file", "dir", "error"}
OutputKey   == <<"output">>

ExporterOptValues == {<<"output", "=", "p">>, <<"a", "=", "1">>, <<"noequals">>}

\* m[k] on a Go map of strings: the empty string when k is absent
MapGet(m, k) == IF k \in DOMAIN m THEN m[k] ELSE <<>>

Target(w, dir, err) == [w |-> w, dir |-> dir, err |-> err]

resolveExporterOutput(exporter, output, stat, createOk, stdoutIsConsole) ==
    CASE exporter = "local" ->
            IF output = <<>>
            THEN Target("none", <<>>, "output directory is required for local exporter")
            ELSE Target("none", output, "nil")
      [] exporter \in {"oci", "docker"} ->
            IF output # <<>>
            THEN IF stat = "error"
                 THEN Target("none", <<>>, "invalid destination file")
                 ELSE IF stat = "dir"
                 THEN Target("none", <<>>, "destination file is a directory")
                 ELSE IF createOk
                 THEN Target("file", <<>>, "nil")
                 ELSE Target("none", <<>>, "cannot create file")
            ELSE IF stdoutIsConsole
                 THEN Target("none", <<>>, "output file is required, refusing to write to console")
                 ELSE Target("stdout", <<>>, "nil")
      [] OTHER ->
            IF output # <<>>
            THEN Target("none", <<>>, "output is not supported by exporter")
            ELSE Target("none", <<>>, "nil")

ResolveExporter ==
    /\ pc = "exporter"
    /\ \E exporter \in Exporters, opts \in ListsUpTo(ExporterOptValues, MaxList),
          stat \in StatResults, createOk \in BOOLEAN, stdoutIsConsole \in BOOLEAN :
          LET am == attrMap(opts)
          IN  IF am.status # "ok"
              THEN ReturnFromBuild("invalid exporter-opt")
              ELSE LET r == resolveExporterOutput(exporter, MapGet(am.val, OutputKey),
                                                  stat, createOk, stdoutIsConsole)
                   IN  IF r.err # "nil"
                       THEN ReturnFromBuild("invalid exporter-opt: output")
                       ELSE /\ pc' = "frontendOpt"
                            /\ outputHandle' = r.w
                            /\ UNCHANGED <<result, traceEnc, traceFileOpen, outputReleases>>
    /\ Idle

ParseFrontendOpt ==
    /\ pc = "frontendOpt"
    /\ \E opts \in ListsUpTo(FlatStrings, MaxList) :
          IF attrMap(opts).status # "ok"
          THEN ReturnFromBuild("invalid frontend-opt")
          ELSE Proceed("local")
    /\ Idle

ParseLocal ==
    /\ pc = "local"
    /\ \E opts \in ListsUpTo(FlatStrings, MaxList) :
          IF attrMap(opts).status # "ok"
          THEN ReturnFromBuild("invalid local")
          ELSE Proceed("definition")
    /\ Idle

\* what the frontend == "" branch returns; "nil" when build() goes on
readDefinition(frontend, stdinIsTerminal, readOk, defLen) ==
    IF frontend = ""
    THEN IF stdinIsTerminal
         THEN "please specify --frontend or pipe LLB definition to stdin"
         ELSE IF ~readOk THEN "failed to parse input"
         ELSE IF defLen = 0 THEN "empty definition sent to build"
         ELSE "nil"
    ELSE "nil"

ReadDefinition ==
    /\ pc = "definition"
    /\ \E frontend \in {"", "dockerfile.v0"}, stdinIsTerminal \in BOOLEAN,
          readOk \in BOOLEAN, defLen \in 0..1 :
          LET err == readDefinition(frontend, stdinIsTerminal, readOk, defLen)
          IN  IF err # "nil" THEN ReturnFromBuild(err) ELSE Proceed("goSolve")
    /\ Idle

\* errors of the taxonomy's categories 1-3: input validation, resource, environment
SetupErrors ==
    {"failed to resolve client", "cannot open trace file", "ssh agent provider",
     "invalid field must be a key=value pair", "unsupported secret type",
     "unexpected key", "failed to parse csv secret", "unknown entitlement",
     "--export-cache-opt requires exactly single --export-cache",
     "--export-cache-opt is not supported for the specified --export-cache",
     "--export-cache requires type=<type>", "--import-cache requires type=<type>",
     "invalid value", "EOF",
     "invalid exporter-opt", "invalid exporter-opt: output",
     "invalid frontend-opt", "invalid local",
     "please specify --frontend or pipe LLB definition to stdin",
     "failed to parse input", "empty definition sent to build",
     "invalid progress value", "console error"}

(***************************************************************************)
(* build(): the errgroup and its three goroutines                          *)
(***************************************************************************)
\* errgroup.Group.Go: the first non-nil error a task returns is kept and cancels ctx
egRecord(task, err) ==
    /\ egErr' = IF err # "nil" /\ egErr = "nil" THEN err ELSE egErr
    /\ ctxCancelled' = (ctxCancelled \/ err # "nil")
    /\ cancelledBy' = IF err # "nil" /\ ~ctxCancelled THEN task ELSE cancelledBy
    /\ renderedAtCancel' = IF err # "nil" /\ ~ctxCancelled
                           THEN Len(rendered) ELSE renderedAtCancel

GoSolve ==
    /\ pc = "goSolve"
    /\ Proceed("goTrace")
    /\ engPc' = "running"
    /\ UNCHANGED <<engEv, chClosed, emitted, fwdVars, dispVars, egVars, parseVars>>

\* displayCh := ch; if traceEnc != nil { displayCh = make(chan ...); eg.Go(...) }
GoTrace ==
    /\ pc = "goTrace"
    /\ Proceed("goDisplay")
    /\ fwdPc' = IF traceEnc THEN "recv" ELSE "none"
    /\ UNCHANGED <<fwdEv, traceSeen, traceLog, traceErrs,
                   engVars, dispVars, egVars, parseVars>>

GoDisplay ==
    /\ pc = "goDisplay"
    /\ Proceed("wait")
    /\ dispPc' = "start"
    /\ UNCHANGED <<displayClosed, rendered, engVars, fwdVars, egVars, parseVars>>

\* the display reads ch itself unless the forwarder was started
displayChIsCh == ~traceEnc

DisplayChClosed == IF displayChIsCh THEN chClosed ELSE displayClosed

TasksDone ==
    /\ engPc = "done"
    /\ fwdPc \in {"none", "done"}
    /\ dispPc = "done"

\* eg.Wait(): blocks until every task returned, cancels ctx, returns the first error
Wait ==
    /\ pc = "wait"
    /\ TasksDone
    /\ ReturnFromBuild(egErr)
    /\ ctxCancelled' = TRUE
    /\ cancelledBy' = IF ctxCancelled THEN cancelledBy ELSE "wait"
    /\ renderedAtCancel' = IF ctxCancelled THEN renderedAtCancel ELSE Len(rendered)
    /\ UNCHANGED <<egErr, engErr, fwdErr, dispErr, engVars, fwdVars, dispVars, parseVars>>

(* goroutine 1: c.Solve(ctx, def, solveOpt, ch).  The engine emits status      *)
(* events on ch, blocking on each until it is received, closes ch when it is   *)
(* done, and gives up (closing ch) once ctx is cancelled.                      *)
EngineEmit(e) ==
    /\ engPc = "running"
    /\ Len(emitted) < MaxEvents
    /\ engPc' = "sending"
    /\ engEv' = e
    /\ UNCHANGED <<chClosed, emitted, buildVars, fwdVars, dispVars, egVars, parseVars>>

EngineReturn(err) ==
    /\ engPc = "running"
    /\ engPc' = "done"
    /\ chClosed' = TRUE
    /\ engErr' = err
    /\ egRecord("eng", err)
    /\ UNCHANGED <<engEv, emitted, fwdErr, dispErr, buildVars, fwdVars, dispVars, parseVars>>

EngineAbort ==
    /\ engPc \in {"running", "sending"}
    /\ ctxCancelled
    /\ engPc' = "done"
    /\ engEv' = "none"
    /\ chClosed' = TRUE
    /\ engErr' = "context canceled"
    /\ egRecord("eng", "context canceled")
    /\ UNCHANGED <<emitted, fwdErr, dispErr, buildVars, fwdVars, dispVars, parseVars>>

(* goroutine 2: the forwarder *)
\* for s := range ch
FwdRecv ==
    /\ fwdPc = "recv"
    /\ engPc = "sending"
    /\ fwdEv' = engEv
    /\ fwdPc' = "encode"
    /\ emitted' = Append(emitted, engEv)
    /\ engPc' = "running"
    /\ engEv' = "none"
    /\ UNCHANGED <<chClosed, traceSeen, traceLog, traceErrs,
                   buildVars, dispVars, egVars, parseVars>>

\* where the loop body goes after traceEnc.Encode(s) returned
fwdAfterEncode_continue(ok) == IF ok THEN "send" ELSE "recv"

fwdAfterEncode_return(ok) == IF ok THEN "send" ELSE "failed"

fwdAfterEncode(ok) == "send"

\* if err := traceEnc.Encode(s); err != nil { logrus.Error(err) }
FwdEncode ==
    /\ fwdPc = "encode"
    /\ \E ok \in BOOLEAN :
          /\ traceSeen' = Append(traceSeen, fwdEv)
          /\ traceLog' = IF ok THEN Append(traceLog, fwdEv) ELSE traceLog
          /\ traceErrs' = IF ok THEN traceErrs ELSE traceErrs + 1
          /\ fwdPc' = fwdAfterEncode(ok)
    /\ UNCHANGED <<fwdEv, buildVars, engVars, dispVars, egVars, parseVars>>

\* defer close(displayCh)
fwdDeferClose_missing == FALSE

fwdDeferClose == TRUE

FwdLeaves == (fwdPc = "recv" /\ chClosed) \/ fwdPc = "failed"

\* the range loop ends when ch is closed and drained; the goroutine returns
FwdExit ==
    /\ FwdLeaves
    /\ fwdErr' = IF fwdPc = "failed" THEN "encode error" ELSE "nil"
    /\ egRecord("fwd", fwdErr')
    /\ fwdPc' = "done"
    /\ displayClosed' = (displayClosed \/ fwdDeferClose)
    /\ UNCHANGED <<fwdEv, traceSeen, traceLog, traceErrs, dispPc, rendered,
                   engErr, dispErr, buildVars, engVars, parseVars>>

(* goroutine 3: the display *)
ProgressOpts == {"auto", "plain", "tty", "fancy"}

\* the switch on progressOpt: the error it returns, "nil" when it falls through
displaySetup(progressOpt, consoleErr) ==
    CASE progressOpt \in {"auto", "tty"} ->
            IF consoleErr /\ progressOpt = "tty" THEN "console error" ELSE "nil"
      [] progressOpt = "plain" -> "nil"
      [] OTHER -> "invalid progress value"

DisplayStart ==
    /\ dispPc = "start"
    /\ \E progressOpt \in ProgressOpts, consoleErr \in BOOLEAN :
          LET err == displaySetup(progressOpt, consoleErr)
          IN  IF err = "nil"
              THEN /\ dispPc' = "render"
                   /\ UNCHANGED egVars
              ELSE /\ dispPc' = "done"
                   /\ dispErr' = err
                   /\ egRecord("disp", err)
                   /\ UNCHANGED <<engErr, fwdErr>>
    /\ UNCHANGED <<displayClosed, rendered, buildVars, engVars, fwdVars, parseVars>>

\* DisplaySolveStatus receives from displayCh, which is ch
DisplayRecvDirect ==
    /\ dispPc = "render"
    /\ displayChIsCh
    /\ engPc = "sending"
    /\ rendered' = Append(rendered, engEv)
    /\ emitted' = Append(emitted, engEv)
    /\ engPc' = "running"
    /\ engEv' = "none"
    /\ UNCHANGED <<chClosed, dispPc, displayClosed, buildVars, fwdVars, egVars, parseVars>>

\* displayCh <- s, received by DisplaySolveStatus
DisplayRecvForwarded ==
    /\ dispPc = "render"
    /\ fwdPc = "send"
    /\ rendered' = Append(rendered, fwdEv)
    /\ fwdPc' = "recv"
    /\ UNCHANGED <<fwdEv, traceSeen, traceLog, traceErrs, dispPc, displayClosed,
                   buildVars, engVars, egVars, parseVars>>

\* the context handed to DisplaySolveStatus is context.TODO(), never done
DisplayCtxDone_shared == ctxCancelled

DisplayCtxDone == FALSE

DisplayStops == DisplayChClosed \/ DisplayCtxDone

\* DisplaySolveStatus returns: nil when displayCh is closed, ctx.Err() when ctx is done
DisplayEnd ==
    /\ dispPc = "render"
    /\ DisplayStops
    /\ \E err \in {"nil", "context canceled"} :
          /\ err = "nil" => DisplayChClosed
          /\ err # "nil" => DisplayCtxDone
          /\ dispErr' = err
          /\ egRecord("disp", err)
    /\ dispPc' = "done"
    /\ UNCHANGED <<displayClosed, rendered, engErr, fwdErr,
                   buildVars, engVars, fwdVars, parseVars>>

(***************************************************************************)
(* Specifications                                                          *)
(***************************************************************************)
Init == BuildInit /\ ParseIdle

Setup ==
    \/ ResolveClient \/ OpenTraceFile \/ ParseSSH \/ ParseSecrets
    \/ ParseEntitlements \/ ParseExportCacheFlag \/ ParseImportCacheFlag
    \/ ResolveExporter \/ ParseFrontendOpt \/ ParseLocal \/ ReadDefinition

Engine ==
    \/ \E e \in EventKinds : EngineEmit(e)
    \/ \E err \in {"nil", "engine error"} : EngineReturn(err)
    \/ EngineAbort

Forwarder == FwdRecv \/ FwdEncode \/ FwdExit

Display == DisplayStart \/ DisplayRecvDirect \/ DisplayRecvForwarded \/ DisplayEnd

Next == Setup \/ GoSolve \/ GoTrace \/ GoDisplay \/ Engine \/ Forwarder \/ Display \/ Wait

Spec == Init /\ [][Next]_vars

\* every goroutine that can take a step eventually does; the engine call ends
Fairness ==
    /\ WF_vars(Setup) /\ WF_vars(GoSolve) /\ WF_vars(GoTrace) /\ WF_vars(GoDisplay)
    /\ WF_vars(\E err \in {"nil", "engine error"} : EngineReturn(err))
    /\ WF_vars(EngineAbort)
    /\ WF_vars(FwdRecv) /\ WF_vars(FwdEncode) /\ WF_vars(FwdExit)
    /\ WF_vars(DisplayStart) /\ WF_vars(DisplayRecvDirect)
    /\ WF_vars(DisplayRecvForwarded) /\ WF_vars(DisplayEnd)
    /\ WF_vars(Wait)

FairSpec == Spec /\ Fairness

ParseInit ==
    /\ BuildInit
    /\ pOut = Pending
    /\ \E in \in ParseInputs : pOp = in[1] /\ pIn = in[2]

ParseNext == ApplyExportCache \/ ApplyImportCache \/ ApplySecret \/ ApplyAttrMap

ParseSpec == ParseInit /\ [][ParseNext]_vars

(***************************************************************************)
(* Properties                                                              *)
(***************************************************************************)
IsPrefix(s, t) == Len(s) <= Len(t) /\ SubSeq(t, 1, Len(s)) = s

DisplaySetupErrors == {"invalid progress value", "console error"}

DisplayFailed == dispPc = "done" /\ dispErr \in DisplaySetupErrors

\* C1: with the trace forwarder running, the events handed to the trace encoder
\* and the events the display received are, at every moment, prefixes of the
\* sequence the engine emitted (nothing dropped, duplicated or reordered, the
\* display at most one event behind); displayCh is closed only once ch is closed
\* and every emitted event was encoded and forwarded; and a display that ran to
\* its end, and every run in which eg.Wait returned, has the trace encoder and
\* the display at exactly the emitted sequence.
C1_FanOutInOrder ==
    traceEnc =>
        /\ IsPrefix(rendered, traceSeen)
        /\ IsPrefix(traceSeen, emitted)
        /\ Len(emitted) <= Len(rendered) + 1
        /\ displayClosed => (chClosed /\ rendered = emitted /\ traceSeen = emitted)
        /\ (dispPc = "done" /\ dispErr = "nil") =>
               (displayClosed /\ rendered = emitted /\ traceSeen = emitted)
        /\ (pc = "returned" /\ engPc # "none") =>
               (rendered = emitted /\ traceSeen = emitted)

C1_Witness ==
    /\ traceEnc /\ pc = "returned" /\ displayClosed
    /\ Len(emitted) >= 2 /\ emitted[1] # emitted[2]
    /\ rendered = emitted /\ traceSeen = emitted

EngineFailedEarly == engPc = "done" /\ engErr \notin {"none", "nil"} /\ emitted = <<>>

\* C2: once the engine call has failed without having emitted an event, nothing
\* is ever rendered, and the forwarder (if any) and the display return and
\* eg.Wait returns.
C2_EarlyEngineFailureTerminates ==
    /\ [](EngineFailedEarly => rendered = <<>>)
    /\ EngineFailedEarly ~>
           (pc = "returned" /\ dispPc = "done" /\ fwdPc \in {"none", "done"}
               /\ rendered = <<>>)

C2_Witness ==
    /\ EngineFailedEarly /\ engErr = "engine error" /\ traceEnc
    /\ pc = "returned" /\ fwdPc = "done" /\ dispPc = "done" /\ dispErr = "nil"
    /\ rendered = <<>>

\* C3: whenever the display task returns an error, every task ends and eg.Wait
\* returns a non-nil error.
C3_DisplayErrorFailsRun ==
    DisplayFailed ~> (pc = "returned" /\ result # "nil" /\ TasksDone)

\* C4: the display is not stopped by the cancellation of the shared context: it
\* returns only when displayCh is closed, then with nil and having received every
\* event the engine emitted; eg.Wait returns only after the display returned; and
\* while the display is rendering, every emitted event reaches it, cancelled or not.
C4_CancellationDoesNotTruncate ==
    /\ []((dispPc = "done" /\ dispErr \notin DisplaySetupErrors) =>
             (dispErr = "nil" /\ DisplayChClosed /\ rendered = emitted))
    /\ []((pc = "returned" /\ engPc # "none") => dispPc = "done")
    /\ \A n \in 1..MaxEvents :
           (dispPc = "render" /\ Len(emitted) >= n) ~> (Len(rendered) >= n)

C4_Witness ==
    /\ pc = "returned" /\ cancelledBy = "eng" /\ dispErr = "nil"
    /\ renderedAtCancel >= 0 /\ Len(rendered) > renderedAtCancel
    /\ rendered = emitted

\* C5: build() never returns a validation, resource or environment error after
\* the engine call was started.
C5_ValidationBeforeEngine ==
    ~(pc = "returned" /\ engPc # "none" /\ result \in SetupErrors)

\* C6: when build() has returned and resolveExporterOutput had created the output
\* file, build() has closed that file exactly once.
C6_OutputHandleReleasedOnce ==
    (pc = "returned" /\ outputHandle = "file") => outputReleases = 1

\* C7: the forwarder never returns an error and never cancels the shared context;
\* whatever Encode returned, the event it was given is the next one sent to the
\* display, and the forwarder goes back to receiving only with every event
\* forwarded; a run in which the engine call and the display succeeded returns nil.
C7_TraceWriteBestEffort ==
    /\ fwdErr \in {"none", "nil"}
    /\ cancelledBy # "fwd"
    /\ fwdPc = "send" => emitted = Append(rendered, fwdEv)
    /\ (traceEnc /\ fwdPc \in {"recv", "done"}) => rendered = emitted
    /\ (pc = "returned" /\ engErr = "nil" /\ dispErr = "nil") => result = "nil"

C7_Witness ==
    /\ pc = "returned" /\ result = "nil" /\ fwdErr = "nil"
    /\ traceErrs >= 1 /\ Len(traceLog) < Len(traceSeen)
    /\ Len(emitted) >= 2 /\ rendered = emitted

\* a field of the CSV record of s that holds no "="
HasBareField(s) ==
    s # <<>> /\ \E i \in DOMAIN SplitComma(s) : Len(SplitN2(SplitComma(s)[i])) = 1

\* C8: every parser returns an error (it neither succeeds nor panics) on an input
\* with a field that holds no "=": a cache spec parsed in structured mode, a
\* secret spec, a flat key=value list.
C8_BareFieldRejected ==
    pOut.status # "pending" =>
        /\ (pOp = "parseExportCache"
              /\ \E i \in DOMAIN pIn[1] : ~IsLegacy(pIn[1][i]) /\ HasBareField(pIn[1][i]))
               => pOut.status = "err"
        /\ (pOp = "parseImportCache"
              /\ \E i \in DOMAIN pIn : ~IsLegacy(pIn[i]) /\ HasBareField(pIn[i]))
               => pOut.status = "err"
        /\ (pOp = "parseSecret" /\ HasBareField(pIn)) => pOut.status = "err"
        /\ (pOp = "attrMap" /\ \E i \in DOMAIN pIn : Len(SplitN2(pIn[i])) = 1)
               => pOut.status = "err"

\* the values of the fields of s whose case-folded key is "type" and whose value
\* is not empty
TypeValues(s) ==
    IF s = <<>> THEN {}
    ELSE {SplitN2(f)[2] : f \in {g \in {SplitComma(s)[i] : i \in DOMAIN SplitComma(s)} :
                                    /\ Len(SplitN2(g)) = 2
                                    /\ ToLower(SplitN2(g)[1]) = TypeKey
                                    /\ SplitN2(g)[2] # <<>>}}

\* the one cache spec of a call that passes one spec and no companion options
SingleSpec ==
    IF pOp = "parseExportCache" /\ Len(pIn[1]) = 1 /\ pIn[2] = <<>> THEN <<pIn[1][1]>>
    ELSE IF pOp = "parseImportCache" /\ Len(pIn) = 1 THEN <<pIn[1]>>
    ELSE <<>>

\* C9: a cache spec with a type field parses to an entry whose Type is that
\* field's value, wherever the field stands; only a spec with no type field is
\* handled as a legacy ref.
C9_TypeFieldSetsKind ==
    (pOut.status # "pending" /\ SingleSpec # <<>>) =>
        LET s == SingleSpec[1]
        IN  /\ TypeValues(s) # {} =>
                   (pOut.status = "ok" /\ pOut.val[1].Type \in TypeValues(s))
            /\ (pOut.status = "ok" /\ IsLegacy(s)) => TypeValues(s) = {}

\* C10: parseExportCache returns an error and no entries when companion options
\* are given with more than one spec or with a structured spec; when it succeeds
\* with companion options there is one spec, a legacy one, and its entry has
\* Type "registry", ref equal to the spec string, and the companion attributes.
C10_LegacyOptsOnlyForSingleLegacySpec ==
    (pOp = "parseExportCache" /\ pOut.status # "pending" /\ pIn[2] # <<>>) =>
        LET exportCaches == pIn[1]
            opts         == attrMap(pIn[2]).val
        IN  /\ (Len(exportCaches) > 1
                   \/ (Len(exportCaches) = 1 /\ Contains(exportCaches[1], TypeEq)))
                   => (pOut.status = "err" /\ pOut.val = <<>>)
            /\ pOut.status = "ok" =>
                   /\ Len(exportCaches) = 1
                   /\ ~Contains(exportCaches[1], TypeEq)
                   /\ Len(pOut.val) = 1
                   /\ pOut.val[1].Type = Registry
                   /\ pOut.val[1].Attrs[RefKey] = exportCaches[1]
                   /\ \A k \in (DOMAIN opts) \ {RefKey} : pOut.val[1].Attrs[k] = opts[k]

C10_Witness ==
    /\ pOp = "parseExportCache" /\ pOut.status = "ok"
    /\ pIn[1] = <<<<"a", "=", "a">>>>
    /\ pIn[2] = <<<<"ref", "=", "a">>, <<"mode", "=", "max">>>>
    /\ pOut.val[1].Attrs[RefKey] = <<"a", "=", "a">>
    /\ pOut.val[1].Attrs[ModeKey] = <<"max">>

====
